---------------------------- MODULE Spec2Model ----------------------------
(***************************************************************************)
(* Mesh observer: the ingestion loop (logParser), the scheduler loop       *)
(* (scheduleRunner with its jobs), the shared lock, the run flag and the   *)
(* persistent store, as a state machine.                                   *)
(*                                                                         *)
(* A log line is modelled by what the regular expressions and substring    *)
(* tests of logParser find in it (one field per test), ids are kept as the *)
(* hexadecimal text the line carries and converted as int(.., 16) does.    *)
(***************************************************************************)
EXTENDS Integers, Sequences, FiniteSets, TLC

(***************************************************************************)
(* Bounds of the model.                                                    *)
(***************************************************************************)
\* non-empty lines the line source delivers in one run of the two threads
MaxLines == 2
\* non-empty lines fed to logParser when it runs alone
MaxFeed == 3
\* seconds the clock advances while traceroute lines are fed
MaxTime == 2

(***************************************************************************)
(* Text: hexadecimal ids.  A token is a sequence of characters, 0..15 the  *)
(* hexadecimal digits 0-9a-f and XCH the letter x.                         *)
(***************************************************************************)
XCH == 16

RECURSIVE HexValue(_)
HexValue(s) ==
    IF s = <<>> THEN 0
    ELSE HexValue(SubSeq(s, 1, Len(s) - 1)) * 16 + s[Len(s)]

HexHasPrefix(tok) == Len(tok) >= 2 /\ tok[1] = 0 /\ tok[2] = XCH

HexBody(tok) == IF HexHasPrefix(tok) THEN SubSeq(tok, 3, Len(tok)) ELSE tok

\* int(tok, 16) raises ValueError unless tok is [0x]hexdigits+
HexValid(tok) ==
    /\ HexBody(tok) # <<>>
    /\ \A i \in 1..Len(HexBody(tok)) : HexBody(tok)[i] < XCH

\* An integer id is kept as two limbs, value = hi * 2^16 + lo with lo < 2^16
\* (Python integers do not wrap, hi is not bounded by the id's 32 bits).
IdOf(hi, lo) == [hi |-> hi, lo |-> lo]

\* int(tok, 16) of a valid token
IntHex(tok) ==
    LET b == HexBody(tok) IN
    IF Len(b) <= 4 THEN IdOf(0, HexValue(b))
    ELSE IdOf(HexValue(SubSeq(b, 1, Len(b) - 4)), HexValue(SubSeq(b, Len(b) - 3, Len(b))))

\* 0xFFFFFFFF
BROADCAST == IdOf(65535, 65535)

ZERO == IdOf(0, 0)

IdIgnoredZeroOnly(id) == id = ZERO

\* Ignore broadcast or unknown ID
IdIgnored(id) == id = BROADCAST \/ id = ZERO

(***************************************************************************)
(* Text: the dB annotation of a traceroute hop.  Characters 0..9 are the   *)
(* decimal digits, DOT and MINUS the other two characters the pattern      *)
(* [0-9.-]{0,6} admits.  A value is kept in units of 10^-5 dB.             *)
(***************************************************************************)
DOT == 10

MINUS == 11

SNR_UNIT == 100000

\* snr = -500  # Invalid SNR
INVALID_SNR == -500 * SNR_UNIT

RECURSIVE DecValue(_)
DecValue(s) ==
    IF s = <<>> THEN 0
    ELSE DecValue(SubSeq(s, 1, Len(s) - 1)) * 10 + s[Len(s)]

RECURSIVE Pow10(_)
Pow10(n) == IF n <= 0 THEN 1 ELSE 10 * Pow10(n - 1)

FloatNeg(s) == s # <<>> /\ s[1] = MINUS

FloatBody(s) == IF FloatNeg(s) THEN SubSeq(s, 2, Len(s)) ELSE s

FloatDots(s) == {i \in 1..Len(s) : s[i] = DOT}

\* float(s) raises ValueError unless s is [-](digits[.digits] | .digits)
FloatValid(s) ==
    LET b == FloatBody(s) IN
    /\ \A i \in 1..Len(b) : b[i] # MINUS
    /\ Cardinality(FloatDots(b)) <= 1
    /\ \E i \in 1..Len(b) : b[i] < DOT

\* float(s) of a valid text, in units of 10^-5
FloatValue(s) ==
    LET b == FloatBody(s)
        d == IF FloatDots(b) = {} THEN Len(b) + 1 ELSE CHOOSE i \in FloatDots(b) : TRUE
        ip == SubSeq(b, 1, d - 1)
        fp == SubSeq(b, d + 1, Len(b))
        v == DecValue(ip) * SNR_UNIT + DecValue(fp) * Pow10(5 - Len(fp))
    IN  IF FloatNeg(s) THEN 0 - v ELSE v

(***************************************************************************)
(* Text: node names.  A name is a sequence of one-character strings.       *)
(***************************************************************************)
HexUpperChars == <<"0", "1", "2", "3", "4", "5", "6", "7", "8", "9", "A", "B", "C", "D", "E", "F">>

\* info.group(2)[-4:].upper()
HexIdText(tok) == [i \in 1..4 |-> HexUpperChars[tok[Len(tok) - 4 + i] + 1]]

SlashPositions(name) == {i \in 1..Len(name) : name[i] = "/"}

\* name.split("/", 1): the split at the first '/' instead of the last
SplitFirstSlash(name) ==
    IF SlashPositions(name) = {} THEN <<name>>
    ELSE LET p == CHOOSE i \in SlashPositions(name) : \A j \in SlashPositions(name) : i <= j
         IN  <<SubSeq(name, 1, p - 1), SubSeq(name, p + 1, Len(name))>>

\* name.rsplit("/", 1): one part when the name holds no '/', else two
RSplitSlash(name) ==
    IF SlashPositions(name) = {} THEN <<name>>
    ELSE LET p == CHOOSE i \in SlashPositions(name) : \A j \in SlashPositions(name) : j <= i
         IN  <<SubSeq(name, 1, p - 1), SubSeq(name, p + 1, Len(name))>>

StripChars == {" ", "#"}

RECURSIVE LStrip(_)
LStrip(s) == IF s # <<>> /\ s[1] \in StripChars THEN LStrip(Tail(s)) ELSE s

RECURSIVE RStrip(_)
RStrip(s) ==
    IF s # <<>> /\ s[Len(s)] \in StripChars THEN RStrip(SubSeq(s, 1, Len(s) - 1)) ELSE s

\* s.strip(" #")
Strip(s) == RStrip(LStrip(s))


(***************************************************************************)
(* Tables of the program.                                                  *)
(***************************************************************************)
\* port_numbers: message identifier string of the debug log -> port number
port_numbers ==
    "unknown" :> 0 @@ "text msg" :> 1 @@ "remotehardware" :> 2 @@ "position" :> 3
    @@ "nodeinfo" :> 4 @@ "routing" :> 5 @@ "admin" :> 6 @@ "waypoint msg" :> 8
    @@ "telemetry" :> 67 @@ "devicetelemetry" :> 67 @@ "powertelemetry" :> 67
    @@ "environmenttelemetry" :> 67 @@ "hostmetrics" :> 67 @@ "traceroute" :> 70

TELEMETRY_PORT == 67

\* Globals.module_count as constructed ('startlog' is the variable startlog)
ModuleCountInit ==
    "DeviceTelemetry" :> 0 @@ "EnvironmentTelemetry" :> 0 @@ "PowerTelemetry" :> 0
    @@ "HostMetrics" :> 0 @@ "AirQuality" :> 0 @@ "HealthTelemetry" :> 0
    @@ "StoreForward" :> 0 @@ "ExternalNotificationModule" :> 0 @@ "Admin" :> 0
    @@ "routing" :> 0 @@ "traceroute" :> 0 @@ "position" :> 0 @@ "nodeinfo" :> 0
    @@ "text msg" :> 0 @@ "error7" :> 0

\* the telemetry detail tests of logParser, in the order of the elif chain:
\* substring looked for, counter incremented, type code written
TelemetryChain ==
    << [field |-> "air_util_tx",         key |-> "DeviceTelemetry",      code |-> 512],
       [field |-> "ch1_voltage",         key |-> "PowerTelemetry",       code |-> 513],
       [field |-> "barometric_pressure", key |-> "EnvironmentTelemetry", code |-> 514],
       [field |-> "diskfree",            key |-> "HostMetrics",          code |-> 515],
       [field |-> "pm10_standard",       key |-> "AirQuality",           code |-> 516],
       [field |-> "heart_bpm",           key |-> "HealthTelemetry",      code |-> 517] >>

TelemetryFields == {TelemetryChain[i].field : i \in 1..Len(TelemetryChain)}

\* the counters statistics() reads, in the order it reads them
StatisticsKeys ==
    << "DeviceTelemetry", "EnvironmentTelemetry", "HostMetrics", "StoreForward",
       "PowerTelemetry", "traceroute", "position", "nodeinfo", "text msg",
       "waypoint msg", "ExternalNotificationModule", "AirQuality", "admin", "error7" >>

\* str.lower() on the category names the model feeds
LowerTable == "Routing" :> "routing" @@ "Position" :> "position" @@ "Telemetry" :> "telemetry"

Lower(t) == IF t \in DOMAIN LowerTable THEN LowerTable[t] ELSE t

(***************************************************************************)
(* Log lines.  One field per test logParser applies to a line:             *)
(*   nil    the line is the None sentinel of poll_read                     *)
(*   rx     re.search(regex_packet_rx): category text and source id text   *)
(*   tele   the telemetry field names the line contains                    *)
(*   dec    re.search(regex_decoding): the marker found ("" if none)       *)
(*   info   re.search(regex_node_info): name text and id text              *)
(*   pos    re.search(regex_position): id text, lat, lon                   *)
(*   role   re.search(regex_role): id text, role, hw                       *)
(*   err7   "error=-7" in line                                             *)
(*   trace  the line starts with "#Start", "|" or "#Back"; segs are the    *)
(*          parts of line.split(">"), each with what regex_traceroute      *)
(*          finds in it (id text and optional dB text)                     *)
(***************************************************************************)
NoRx == [m |-> FALSE, type |-> "", from |-> <<>>]

NoInfo == [m |-> FALSE, name |-> <<>>, id |-> <<>>]

NoPos == [m |-> FALSE, id |-> <<>>, lat |-> 0, lon |-> 0]

NoRole == [m |-> FALSE, id |-> <<>>, role |-> 0, hw |-> 0]

NoTrace == [m |-> FALSE, segs |-> <<>>]

NoDb == [m |-> FALSE, txt |-> <<>>]

NoSeg == [m |-> FALSE, id |-> <<>>, db |-> NoDb]

BlankLine ==
    [nil |-> FALSE, rx |-> NoRx, tele |-> {}, dec |-> "", info |-> NoInfo,
     pos |-> NoPos, role |-> NoRole, err7 |-> FALSE, trace |-> NoTrace]

NoneLine == [BlankLine EXCEPT !.nil = TRUE]

RxLine(t, f) == [BlankLine EXCEPT !.rx = [m |-> TRUE, type |-> t, from |-> f]]

TeleLine(fields) == [BlankLine EXCEPT !.tele = fields]

DecLine(marker) == [BlankLine EXCEPT !.dec = marker]

InfoLine(name, id) == [BlankLine EXCEPT !.info = [m |-> TRUE, name |-> name, id |-> id]]

PosLine(id, lat, lon) == [BlankLine EXCEPT !.pos = [m |-> TRUE, id |-> id, lat |-> lat, lon |-> lon]]

RoleLine(id, r, hw) == [BlankLine EXCEPT !.role = [m |-> TRUE, id |-> id, role |-> r, hw |-> hw]]

Err7Line == [BlankLine EXCEPT !.err7 = TRUE]

Seg(id) == [m |-> TRUE, id |-> id, db |-> NoDb]

SegDb(id, txt) == [m |-> TRUE, id |-> id, db |-> [m |-> TRUE, txt |-> txt]]

TraceLine(segs) == [BlankLine EXCEPT !.trace = [m |-> TRUE, segs |-> segs]]


(***************************************************************************)
(* logParser: what one line does before the first lock acquisition.        *)
(*                                                                         *)
(* The result of handling a line up to there is a record                   *)
(*   mc     module_count after the (unlocked) increment                    *)
(*   istel  is_telemetry_packet                                            *)
(*   telid  telemetry_from_id                                              *)
(*   incs   the keys incremented                                           *)
(*   todo   the blocks "with lock: ..." still to run for the line, in order*)
(*   reset  the continuation state is cleared after the blocks (659-660)   *)
(*   crash  an exception escapes the loop (once the blocks of todo ran)    *)
(***************************************************************************)
Outcome(mc, istel, telid, incs, todo, reset, crash) ==
    [mc |-> mc, istel |-> istel, telid |-> telid, incs |-> incs, todo |-> todo,
     reset |-> reset, crash |-> crash]

\* module_count[key] += 1 raises KeyError when the key is absent
HasKey(mc, key) == key \in DOMAIN mc

IncCount(mc, key) == [mc EXCEPT ![key] = @ + 1]

\* the blocks run under the lock
SetCountOp == [k |-> "setmc"]

PacketOp(id, type) == [k |-> "packet", id |-> id, type |-> type]

TelemetryOp(id, type) == [k |-> "telemetry", id |-> id, type |-> type]

InfoOp(id, short, long) == [k |-> "info", id |-> id, shortname |-> short, longname |-> long]

PosOp(id, lat, lon) == [k |-> "pos", id |-> id, lat |-> lat, lon |-> lon]

RoleOp(id, r, hw) == [k |-> "role", id |-> id, role |-> r, hw |-> hw]

HopOp(s, d, snr, first) == [k |-> "hop", source |-> s, dest |-> d, snr |-> snr, first |-> first]

\* a packet type that is not routing, with a source id that is not ignored
CountedPacket(mc, istel, id, type) ==
    IF type \notin DOMAIN port_numbers
    THEN \* Unknown packet type: warning, then "Save what we counted"
         Outcome(mc, istel, id, <<>>, <<SetCountOp>>, FALSE, FALSE)
    ELSE IF port_numbers[type] # TELEMETRY_PORT
    THEN IF HasKey(mc, type)
         THEN Outcome(IncCount(mc, type), istel, id, <<type>>,
                      <<PacketOp(id, port_numbers[type]), SetCountOp>>, FALSE, FALSE)
         ELSE Outcome(mc, istel, id, <<>>, <<>>, FALSE, TRUE)
    ELSE \* We need one more line to check which type of telemetry packet it is
         Outcome(mc, TRUE, id, <<>>, <<>>, FALSE, FALSE)

\* the packet branch without the test "type != routing" of line 594
PacketReceivedCountsRouting(rx, mc, istel, telid) ==
    IF ~HexValid(rx.from)
    THEN Outcome(mc, istel, telid, <<>>, <<>>, FALSE, TRUE)
    ELSE IF IdIgnored(IntHex(rx.from))
    THEN Outcome(mc, FALSE, IntHex(rx.from), <<>>, <<>>, FALSE, FALSE)
    ELSE CountedPacket(mc, istel, IntHex(rx.from), Lower(rx.type))

\* rx_packet is not None (lines 591-625)
PacketReceived(rx, mc, istel, telid) ==
    IF Lower(rx.type) = "routing"
    THEN Outcome(mc, istel, telid, <<>>, <<>>, FALSE, FALSE)
    ELSE IF ~HexValid(rx.from)
    THEN Outcome(mc, istel, telid, <<>>, <<>>, FALSE, TRUE)
    ELSE IF IdIgnored(IntHex(rx.from))
    THEN Outcome(mc, FALSE, IntHex(rx.from), <<>>, <<>>, FALSE, FALSE)
    ELSE CountedPacket(mc, istel, IntHex(rx.from), Lower(rx.type))

\* the first test of the elif chain that the line passes (0 if none)
TelemetryMatch(tele) ==
    IF \E i \in 1..Len(TelemetryChain) : TelemetryChain[i].field \in tele
    THEN CHOOSE i \in 1..Len(TelemetryChain) :
            /\ TelemetryChain[i].field \in tele
            /\ \A j \in 1..(i - 1) : TelemetryChain[j].field \notin tele
    ELSE 0

\* is_telemetry_packet (lines 628-661)
TelemetryDetail(tele, mc, telid) ==
    LET i == TelemetryMatch(tele) IN
    IF i = 0
    THEN Outcome(mc, FALSE, ZERO, <<>>, <<>>, FALSE, FALSE)
    ELSE Outcome(IncCount(mc, TelemetryChain[i].key), TRUE, telid, <<TelemetryChain[i].key>>,
                 <<TelemetryOp(telid, TelemetryChain[i].code)>>, TRUE, FALSE)

DecodingKey(marker) == IF marker = "decoded message" THEN "decoded" ELSE "encrypted"

\* decoding is not None (lines 665-672)
Decoding(marker, mc, istel, telid) ==
    IF HasKey(mc, DecodingKey(marker))
    THEN Outcome(IncCount(mc, DecodingKey(marker)), istel, telid, <<DecodingKey(marker)>>,
                 <<SetCountOp>>, FALSE, FALSE)
    ELSE Outcome(mc, istel, telid, <<>>, <<>>, FALSE, TRUE)

TextValue(s) == [k |-> "text", v |-> s]

IntValue(n) == [k |-> "int", v |-> n]

NullValue == [k |-> "null", v |-> 0]

ShortName(parts, tok) == IF Strip(parts[2]) = <<>> THEN TextValue(HexIdText(tok)) ELSE TextValue(Strip(parts[2]))

LongName(parts, id) == IF Strip(parts[1]) = <<>> THEN IntValue(id) ELSE TextValue(Strip(parts[1]))

\* info is not None (lines 677-700)
NodeInfo(info, mc, istel, telid) ==
    IF IdIgnored(IntHex(info.id))
    THEN Outcome(mc, istel, telid, <<>>, <<>>, FALSE, FALSE)
    ELSE IF Len(RSplitSlash(info.name)) < 2
    THEN Outcome(mc, istel, telid, <<>>, <<>>, FALSE, TRUE)
    ELSE Outcome(mc, istel, telid, <<>>,
                 <<InfoOp(IntHex(info.id), ShortName(RSplitSlash(info.name), info.id),
                          LongName(RSplitSlash(info.name), IntHex(info.id)))>>, FALSE, FALSE)

\* pos is not None (lines 704-718); lat and lon are kept in units of 1e-7 degree
Position(pos, mc, istel, telid) ==
    IF IdIgnored(IntHex(pos.id))
    THEN Outcome(mc, istel, telid, <<>>, <<>>, FALSE, FALSE)
    ELSE Outcome(mc, istel, telid, <<>>, <<PosOp(IntHex(pos.id), pos.lat, pos.lon)>>, FALSE, FALSE)

\* match is not None (lines 722-736)
Role(role, mc, istel, telid) ==
    IF IdIgnored(IntHex(role.id))
    THEN Outcome(mc, istel, telid, <<>>, <<>>, FALSE, FALSE)
    ELSE Outcome(mc, istel, telid, <<>>, <<RoleOp(IntHex(role.id), role.role, role.hw)>>, FALSE, FALSE)

\* "error=-7" in line (lines 739-743)
Error7(mc, istel, telid) ==
    Outcome(IncCount(mc, "error7"), istel, telid, <<"error7">>, <<SetCountOp>>, FALSE, FALSE)

HopSnr(dest) == IF dest.db.m THEN FloatValue(dest.db.txt) ELSE INVALID_SNR

\* Ignore broadcast, unknown ID or equal source-destination
HopIgnored(s, d) == IdIgnored(s) \/ IdIgnored(d) \/ s = d

\* the loop over the hops from hop n on (lines 753-780): the locked blocks it
\* runs, and whether it ends in an exception
RECURSIVE TraceHops(_, _)
TraceHops(segs, n) ==
    IF n > Len(segs) - 1 THEN [todo |-> <<>>, crash |-> FALSE]
    ELSE IF ~segs[n + 1].m THEN TraceHops(segs, n + 1)
    ELSE IF segs[n + 1].db.m /\ ~FloatValid(segs[n + 1].db.txt) THEN [todo |-> <<>>, crash |-> TRUE]
    ELSE IF ~segs[n].m THEN [todo |-> <<>>, crash |-> TRUE]
    ELSE IF HopIgnored(IntHex(segs[n].id), IntHex(segs[n + 1].id)) THEN TraceHops(segs, n + 1)
    ELSE LET rest == TraceHops(segs, n + 1) IN
         [todo |-> <<HopOp(IntHex(segs[n].id), IntHex(segs[n + 1].id), HopSnr(segs[n + 1]), n = 1)>> \o rest.todo,
          crash |-> rest.crash]

\* the line starts a traceroute block (lines 748-781)
Traceroute(trace, mc, istel, telid) ==
    Outcome(mc, istel, telid, <<>>, TraceHops(trace.segs, 1).todo, FALSE, TraceHops(trace.segs, 1).crash)

\* the rule chain without the continue of lines 682, 708 and 726: a node-info,
\* position or role line whose id is ignored is offered to the later rules
ParseLineRejectFallsThrough(line, mc, istel, telid) ==
    IF line.rx.m THEN PacketReceived(line.rx, mc, istel, telid)
    ELSE IF istel THEN TelemetryDetail(line.tele, mc, telid)
    ELSE IF line.dec # "" THEN Decoding(line.dec, mc, istel, telid)
    ELSE IF line.info.m /\ ~IdIgnored(IntHex(line.info.id)) THEN NodeInfo(line.info, mc, istel, telid)
    ELSE IF line.pos.m /\ ~IdIgnored(IntHex(line.pos.id)) THEN Position(line.pos, mc, istel, telid)
    ELSE IF line.role.m /\ ~IdIgnored(IntHex(line.role.id)) THEN Role(line.role, mc, istel, telid)
    ELSE IF line.err7 THEN Error7(mc, istel, telid)
    ELSE IF line.trace.m THEN Traceroute(line.trace, mc, istel, telid)
    ELSE Outcome(mc, istel, telid, <<>>, <<>>, FALSE, FALSE)

\* the rule chain of the loop body (lines 590-781)
ParseLine(line, mc, istel, telid) ==
    IF line.rx.m THEN PacketReceived(line.rx, mc, istel, telid)
    ELSE IF istel THEN TelemetryDetail(line.tele, mc, telid)
    ELSE IF line.dec # "" THEN Decoding(line.dec, mc, istel, telid)
    ELSE IF line.info.m THEN NodeInfo(line.info, mc, istel, telid)
    ELSE IF line.pos.m THEN Position(line.pos, mc, istel, telid)
    ELSE IF line.role.m THEN Role(line.role, mc, istel, telid)
    ELSE IF line.err7 THEN Error7(mc, istel, telid)
    ELSE IF line.trace.m THEN Traceroute(line.trace, mc, istel, telid)
    ELSE Outcome(mc, istel, telid, <<>>, <<>>, FALSE, FALSE)


(***************************************************************************)
(* State.                                                                  *)
(***************************************************************************)
VARIABLES
    reader,               \* class of the line source main constructed
    ev_run,               \* the run flag (threading.Event)
    lock,                 \* the shared lock: "free" or the thread holding it
    module_count,         \* Globals.module_count (the dict both threads share)
    startlog,             \* module_count['startlog']
    packets,              \* table packets: <<id, type>> -> seen
    nodes,                \* table nodes: id -> row
    links,                \* table links: <<source, destination>> -> row
    now,                  \* the clock strftime('%s','now') reads
    lpc,                  \* logParser: where the thread is
    batch,                \* logParser: lines of the current poll still to handle
    is_telemetry_packet,  \* logParser local
    telemetry_from_id,    \* logParser local
    todo,                 \* logParser: locked blocks still to run for the line
    after,                \* logParser: what follows the blocks (reset, crash)
    nread,                \* number of non-empty lines delivered so far
    prev,                 \* history: the line handled before cur
    cur,                  \* history: the line being handled (or handled last)
    eff,                  \* history: the effects of cur so far
    spc,                  \* scheduleRunner: where the thread is
    steps,                \* scheduleRunner: steps of the due jobs still to run
    stopped,              \* history: what happened since the run flag was cleared
    fed,                  \* history: the counted events delivered, per category
    mpc,                  \* main: where the main thread is after starting the threads
    closed                \* the line source is closed

vars ==
    <<reader, ev_run, lock, module_count, startlog, packets, nodes, links, now,
      lpc, batch, is_telemetry_packet, telemetry_from_id, todo, after, nread,
      prev, cur, eff, spc, steps, stopped, fed, mpc, closed>>

storeVars == <<packets, nodes, links>>

parserLocals == <<batch, is_telemetry_packet, telemetry_from_id, todo, after, nread, prev, cur, eff>>

schedVars == <<spc, steps>>

mainVars == <<mpc, closed>>

EmptyTable == [x \in {} |-> 0]

\* the categories of the counted events: a packet category, a telemetry
\* subtype, the two decoding outcomes, the CRC error
CountCats == {"position", "text msg", "PowerTelemetry", "decoded", "encrypted", "error7"}

NoEvents == [c \in CountCats |-> 0]

NoStop == [polls |-> 0, ticks |-> 0, sentinel |-> FALSE]

Init ==
    /\ reader \in {"JournalReader", "SerialReader"}
    /\ ev_run = TRUE
    /\ lock = "free"
    /\ module_count = ModuleCountInit
    /\ startlog = "None"
    /\ packets = EmptyTable
    /\ nodes = EmptyTable
    /\ links = EmptyTable
    /\ now = 0
    /\ lpc = "start"
    /\ batch = <<>>
    /\ is_telemetry_packet = FALSE
    /\ telemetry_from_id = ZERO
    /\ todo = <<>>
    /\ after = [reset |-> FALSE, crash |-> FALSE]
    /\ nread = 0
    /\ prev = BlankLine
    /\ cur = BlankLine
    /\ eff = <<>>
    /\ spc = "start"
    /\ steps = <<>>
    /\ stopped = NoStop
    /\ fed = NoEvents
    /\ mpc = "join_parser"
    /\ closed = FALSE

(***************************************************************************)
(* The lock (threading.Lock used as "with lock:").                         *)
(***************************************************************************)
\* the lock taken without waiting for its holder (what a missing lock would do)
LockAcquireNoWait(t) == lock' = t

\* with lock: blocks until the lock is free
LockAcquire(t) == lock = "free" /\ lock' = t

LockRelease(t) == lock = t /\ lock' = "free"

(***************************************************************************)
(* The store: what the statements of one locked block do when committed.   *)
(***************************************************************************)
NewNode(short, long, seen) ==
    [shortname |-> short, longname |-> long, seen |-> seen, latitude |-> NullValue,
     longitude |-> NullValue, role |-> 0, hardware |-> 0, tracestart |-> 0]

\* the key of table packets: the pair (node id, type code)
PacketsKey(id, type) == <<id, type>>

\* INSERT OR IGNORE in place of INSERT OR REPLACE: the first row of a pair stays
UpsertPacketKeepFirst(tbl, id, type, t) ==
    IF PacketsKey(id, type) \in DOMAIN tbl THEN tbl ELSE (PacketsKey(id, type) :> t) @@ tbl

\* INSERT OR REPLACE INTO packets VALUES(:id, :type, strftime('%s','now'))
UpsertPacket(tbl, id, type, t) == (PacketsKey(id, type) :> t) @@ tbl

\* INSERT OR REPLACE INTO links VALUES(:source, :destination, :snr, strftime('%s','now'))
\* the key of table links: the directed pair (source, destination)
LinksKey(s, d) == <<s, d>>

\* INSERT OR IGNORE in place of INSERT OR REPLACE: the first row of a pair stays
UpsertLinkKeepFirst(tbl, s, d, snr, t) ==
    IF LinksKey(s, d) \in DOMAIN tbl THEN tbl
    ELSE (LinksKey(s, d) :> [snr |-> snr, seen |-> t]) @@ tbl

UpsertLink(tbl, s, d, snr, t) == (LinksKey(s, d) :> [snr |-> snr, seen |-> t]) @@ tbl

\* INSERT INTO nodes VALUES(:id, :shortname, :longname, now, NULL, NULL, 0, 0, 0)
\* ON CONFLICT(id) DO UPDATE SET shortname, longname, seen
UpsertNodeInfo(tbl, id, short, long, t) ==
    IF id \in DOMAIN tbl
    THEN [tbl EXCEPT ![id].shortname = short, ![id].longname = long, ![id].seen = t]
    ELSE (id :> NewNode(short, long, t)) @@ tbl

\* INSERT INTO nodes VALUES(:id, NULL, NULL, now, NULL, NULL, 0, 0, 0)
\* ON CONFLICT(id) DO UPDATE SET seen
TouchNode(tbl, id, t) ==
    IF id \in DOMAIN tbl
    THEN [tbl EXCEPT ![id].seen = t]
    ELSE (id :> NewNode(NullValue, NullValue, t)) @@ tbl

\* INSERT OR REPLACE in place of UPDATE: the row is written anew, its other
\* columns fall back to their defaults
UpdatePositionReplace(tbl, id, lat, lon, t) ==
    IF id \in DOMAIN tbl
    THEN [tbl EXCEPT ![id] = [NewNode(NullValue, NullValue, t) EXCEPT
                                 !.latitude = IntValue(lat), !.longitude = IntValue(lon)]]
    ELSE tbl

\* UPDATE OR IGNORE nodes SET seen, latitude, longitude WHERE id = :id
UpdatePosition(tbl, id, lat, lon, t) ==
    IF id \in DOMAIN tbl
    THEN [tbl EXCEPT ![id].seen = t, ![id].latitude = IntValue(lat), ![id].longitude = IntValue(lon)]
    ELSE tbl

\* UPDATE OR IGNORE nodes SET role, hardware WHERE id = :id
UpdateRole(tbl, id, r, hw) ==
    IF id \in DOMAIN tbl
    THEN [tbl EXCEPT ![id].role = r, ![id].hardware = hw]
    ELSE tbl

\* UPDATE OR IGNORE nodes SET tracestart = tracestart + 1 where id = :id
IncTraceStart(tbl, id) ==
    IF id \in DOMAIN tbl THEN [tbl EXCEPT ![id].tracestart = @ + 1] ELSE tbl

\* the hop block without the test n == 0 of line 776: every hop counts
HopNodesCountsEveryHop(tbl, op, t) ==
    IncTraceStart(TouchNode(TouchNode(tbl, op.source, t), op.dest, t), op.source)

\* the hop block without the touch of the destination (lines 774-775)
HopNodesTouchSourceOnly(tbl, op, t) ==
    LET touched == TouchNode(tbl, op.source, t)
    IN  IF op.first THEN IncTraceStart(touched, op.source) ELSE touched

\* the two touches and the first-hop increment of one hop (lines 772-778)
HopNodes(tbl, op, t) ==
    LET touched == TouchNode(TouchNode(tbl, op.source, t), op.dest, t)
    IN  IF op.first THEN IncTraceStart(touched, op.source) ELSE touched

PacketsAfter(op, t) ==
    IF op.k \in {"packet", "telemetry"} THEN UpsertPacket(packets, op.id, op.type, t) ELSE packets

NodesAfter(op, t) ==
    CASE op.k = "info" -> UpsertNodeInfo(nodes, op.id, op.shortname, op.longname, t)
      [] op.k = "pos"  -> UpdatePosition(nodes, op.id, op.lat, op.lon, t)
      [] op.k = "role" -> UpdateRole(nodes, op.id, op.role, op.hw)
      [] op.k = "hop"  -> HopNodes(nodes, op, t)
      [] OTHER -> nodes

LinksAfter(op, t) ==
    IF op.k = "hop" THEN UpsertLink(links, op.source, op.dest, op.snr, t) ELSE links


(***************************************************************************)
(* The line source.                                                        *)
(***************************************************************************)
A8 == <<0, 0, 0, 0, 0, 0, 1, 10>>

C8 == <<0, 0, 0, 0, 0, 0, 2, 11>>

Z8 == <<0, 0, 0, 0, 0, 0, 0, 0>>

F8 == <<15, 15, 15, 15, 15, 15, 15, 15>>

Hex0x(tok) == <<0, XCH>> \o tok

\* "5.00"
Db500 == <<5, DOT, 0, 0>>

\* the lines the sources deliver when both threads run
ConcLines ==
    { RxLine("position", Hex0x(A8)),
      RxLine("telemetry", Hex0x(A8)),
      TeleLine({"ch1_voltage"}),
      TraceLine(<<Seg(A8), SegDb(C8, Db500)>>) }

\* the lines of a batch that count against the bound: not the empty line of a
\* timeout, not the sentinel
NonBlank(b) == Cardinality({i \in 1..Len(b) : b[i] # BlankLine /\ ~b[i].nil})

\* reader.poll_read() returns the batch b
PollRead(b, limit) ==
    /\ lpc = "poll"
    /\ nread + NonBlank(b) <= limit
    /\ batch' = b
    /\ nread' = nread + NonBlank(b)
    /\ lpc' = "for"
    /\ stopped' = IF ev_run THEN stopped ELSE [stopped EXCEPT !.polls = @ + 1]
    /\ closed' = IF b # <<>> /\ Head(b).nil THEN TRUE
                 ELSE IF reader = "SerialReader" THEN FALSE ELSE closed
    /\ UNCHANGED <<reader, ev_run, lock, module_count, startlog, storeVars, now,
                   is_telemetry_packet, telemetry_from_id, todo, after, prev, cur, eff, schedVars, fed, mpc>>

\* JournalReader.poll_read: the entries appended to the journal, none of them None;
\* the call returns only when the journal reports an append
JournalBatches(U) == {<<>>} \cup {<<l>> : l \in U} \cup {<<l1, l2>> : l1 \in U, l2 \in U}

JournalPoll(U, limit) == reader = "JournalReader" /\ \E b \in JournalBatches(U) : PollRead(b, limit)

\* SerialReader.poll_read: one line (empty after the 5 s timeout), or [None]
\* after a SerialException
SerialPoll(U, limit) == reader = "SerialReader" /\ \E l \in U \cup {BlankLine} : PollRead(<<l>>, limit)

SerialFail == reader = "SerialReader" /\ PollRead(<<NoneLine>>, MaxLines)

(***************************************************************************)
(* logParser.                                                              *)
(***************************************************************************)
\* module_count['startlog'] = datetime.datetime.now()
LpStart ==
    /\ lpc = "start"
    /\ startlog' = "set"
    /\ lpc' = "while"
    /\ UNCHANGED <<reader, ev_run, lock, module_count, storeVars, now, parserLocals, schedVars, stopped, fed, mainVars>>

\* while ev_run.is_set():
LpWhile ==
    /\ lpc = "while"
    /\ lpc' = IF ev_run THEN "poll" ELSE "done"
    /\ UNCHANGED <<reader, ev_run, lock, module_count, startlog, storeVars, now, parserLocals, schedVars, stopped, fed, mainVars>>

\* for line in ...: the batch is exhausted
LpForEnd ==
    /\ lpc = "for"
    /\ batch = <<>>
    /\ lpc' = "while"
    /\ UNCHANGED <<reader, ev_run, lock, module_count, startlog, storeVars, now, parserLocals, schedVars, stopped, fed, mainVars>>

\* the None handling without ev_run.clear(): only the break
LpSentinelNoClear ==
    /\ lpc = "for"
    /\ batch # <<>>
    /\ Head(batch).nil
    /\ batch' = <<>>
    /\ lpc' = "while"
    /\ stopped' = [stopped EXCEPT !.sentinel = TRUE]
    /\ UNCHANGED <<reader, ev_run, lock, module_count, startlog, storeVars, now, is_telemetry_packet,
                   telemetry_from_id, todo, after, nread, prev, cur, eff, schedVars, fed, mainVars>>

\* if line is None: ev_run.clear(); break
LpSentinel ==
    /\ lpc = "for"
    /\ batch # <<>>
    /\ Head(batch).nil
    /\ ev_run' = FALSE
    /\ batch' = <<>>
    /\ lpc' = "while"
    /\ stopped' = [stopped EXCEPT !.sentinel = TRUE]
    /\ UNCHANGED <<reader, lock, module_count, startlog, storeVars, now, is_telemetry_packet,
                   telemetry_from_id, todo, after, nread, prev, cur, eff, schedVars, fed, mainVars>>

IncEffects(keys) == [i \in 1..Len(keys) |-> [e |-> "inc", key |-> keys[i]]]

WriteEffect(op) == IF op.k = "setmc" THEN <<>> ELSE <<[e |-> "write", op |-> op]>>

\* the loop body on one line, up to the first "with lock:" (or to its continue)
LpLine ==
    /\ lpc = "for"
    /\ batch # <<>>
    /\ ~Head(batch).nil
    /\ LET o == ParseLine(Head(batch), module_count, is_telemetry_packet, telemetry_from_id) IN
        /\ module_count' = o.mc
        /\ is_telemetry_packet' = o.istel
        /\ telemetry_from_id' = o.telid
        /\ todo' = o.todo
        /\ after' = [reset |-> o.reset, crash |-> o.crash]
        /\ eff' = IncEffects(o.incs)
        /\ lpc' = IF o.todo # <<>> THEN "lock" ELSE IF o.crash THEN "crashed" ELSE "for"
    /\ prev' = cur
    /\ cur' = Head(batch)
    /\ batch' = Tail(batch)
    /\ UNCHANGED <<reader, ev_run, lock, startlog, storeVars, now, nread, schedVars, stopped, fed, mainVars>>

\* with lock:
LpAcquire ==
    /\ lpc = "lock"
    /\ LockAcquire("lp")
    /\ lpc' = "in"
    /\ UNCHANGED <<reader, ev_run, module_count, startlog, storeVars, now, parserLocals, schedVars, stopped, fed, mainVars>>

\* the statements of the block, database.commit(), and the end of the block
LpCommit ==
    /\ lpc = "in"
    /\ LockRelease("lp")
    /\ packets' = PacketsAfter(Head(todo), now)
    /\ nodes' = NodesAfter(Head(todo), now)
    /\ links' = LinksAfter(Head(todo), now)
    /\ todo' = Tail(todo)
    /\ eff' = eff \o WriteEffect(Head(todo))
    /\ lpc' = IF Tail(todo) # <<>> THEN "lock" ELSE IF after.crash THEN "crashed" ELSE "for"
    /\ is_telemetry_packet' = IF Tail(todo) = <<>> /\ after.reset THEN FALSE ELSE is_telemetry_packet
    /\ telemetry_from_id' = IF Tail(todo) = <<>> /\ after.reset THEN ZERO ELSE telemetry_from_id
    /\ UNCHANGED <<reader, ev_run, module_count, startlog, now, batch, after, nread, prev, cur, schedVars, stopped, fed, mainVars>>

\* the block written with lock.acquire() and lock.release() in place of the with
\* statement: the exception skips the release
LpWriteFailKeepsLock ==
    /\ lpc = "in"
    /\ Head(todo).k # "setmc"
    /\ lpc' = "crashed"
    /\ UNCHANGED <<reader, ev_run, lock, module_count, startlog, storeVars, now, parserLocals, schedVars, stopped, fed, mainVars>>

\* an execute or the commit of the block raises: the lock is released by the
\* with statement, nothing is committed, no handler is in the way
LpWriteFail ==
    /\ lpc = "in"
    /\ Head(todo).k # "setmc"
    /\ LockRelease("lp")
    /\ lpc' = "crashed"
    /\ UNCHANGED <<reader, ev_run, module_count, startlog, storeVars, now, parserLocals, schedVars, stopped, fed, mainVars>>

(***************************************************************************)
(* main: the signal handler.                                               *)
(***************************************************************************)
Signals == {"SIGINT", "SIGABRT", "SIGTERM"}

\* a handler that flips the flag instead of clearing it
SignalHandlerToggle(sig) ==
    /\ ev_run' = ~ev_run
    /\ UNCHANGED <<reader, lock, module_count, startlog, storeVars, now, lpc, parserLocals, schedVars, stopped, fed, mainVars>>

\* signal_handler: ev_run.clear()
SignalHandler(sig) ==
    /\ ev_run' = FALSE
    /\ UNCHANGED <<reader, lock, module_count, startlog, storeVars, now, lpc, parserLocals, schedVars, stopped, fed, mainVars>>

Signal == \E sig \in Signals : SignalHandler(sig)

(***************************************************************************)
(* scheduleRunner and the jobs.  A job is the sequence of its steps; an    *)
(* exception that leaves a step leaves the job, schedule.run_pending() and *)
(* the loop of scheduleRunner, none of which has a handler.                *)
(***************************************************************************)
hourlyRunner == <<"statistics_hourly", "ftp_upload">>

dailyRunner == <<"graph", "statistics", "ftp_upload">>

\* the jobs run_pending() finds due at one tick, in the order it runs them
DueJobs == {<<>>, hourlyRunner, dailyRunner, dailyRunner \o hourlyRunner}

StatisticsSteps == {"statistics_hourly", "statistics"}

SchStart ==
    /\ spc = "start"
    /\ spc' = "while"
    /\ UNCHANGED <<reader, ev_run, lock, module_count, startlog, storeVars, now, lpc, parserLocals, steps, stopped, fed, mainVars>>

\* while ev_run.is_set():
SchWhile ==
    /\ spc = "while"
    /\ spc' = IF ev_run THEN "pending" ELSE "done"
    /\ UNCHANGED <<reader, ev_run, lock, module_count, startlog, storeVars, now, lpc, parserLocals, steps, stopped, fed, mainVars>>

\* schedule.run_pending()
SchRunPending ==
    /\ spc = "pending"
    /\ steps' \in DueJobs
    /\ spc' = "job"
    /\ stopped' = IF ev_run THEN stopped ELSE [stopped EXCEPT !.ticks = @ + 1]
    /\ UNCHANGED <<reader, ev_run, lock, module_count, startlog, storeVars, now, lpc, parserLocals, fed, mainVars>>

\* the subscripts module_count[key] of statistics (lines 181-209) all succeed
CountersReadable(mc) == \A i \in 1..Len(StatisticsKeys) : HasKey(mc, StatisticsKeys[i])

\* statistics(), lines 176-262: with startlog set the counters are read, outside
\* any lock; a KeyError is caught by the except of statistics, which returns
SchStatistics ==
    /\ spc = "job"
    /\ steps # <<>>
    /\ Head(steps) \in StatisticsSteps
    /\ IF startlog # "None" /\ ~CountersReadable(module_count)
       THEN steps' = Tail(steps) /\ spc' = "job"
       ELSE IF Head(steps) = "statistics_hourly"
       THEN steps' = Tail(steps) /\ spc' = "job"
       ELSE steps' = steps /\ spc' = "lock"
    /\ UNCHANGED <<reader, ev_run, lock, module_count, startlog, storeVars, now, lpc, parserLocals, stopped, fed, mainVars>>

\* graph(): try: with lock:
SchGraph ==
    /\ spc = "job"
    /\ steps # <<>>
    /\ Head(steps) = "graph"
    /\ spc' = "lock"
    /\ UNCHANGED <<reader, ev_run, lock, module_count, startlog, storeVars, now, lpc, parserLocals, steps, stopped, fed, mainVars>>

\* with lock: (statistics line 264, graph line 462)
SchAcquire ==
    /\ spc = "lock"
    /\ LockAcquire("sch")
    /\ spc' = "in"
    /\ UNCHANGED <<reader, ev_run, module_count, startlog, storeVars, now, lpc, parserLocals, steps, stopped, fed, mainVars>>

\* the queries of the block and the rest of the step; a failure of the queries or
\* of the rendering is caught by the except of the step
SchRead ==
    /\ spc = "in"
    /\ LockRelease("sch")
    /\ steps' = Tail(steps)
    /\ spc' = "job"
    /\ UNCHANGED <<reader, ev_run, module_count, startlog, storeVars, now, lpc, parserLocals, stopped, fed, mainVars>>

\* graph(): sqlite3.connect raises; the except logs, and the finally reads the
\* local "database", which was never bound: that exception leaves graph
SchGraphConnectFail ==
    /\ spc = "in"
    /\ Head(steps) = "graph"
    /\ LockRelease("sch")
    /\ spc' = "crashed"
    /\ UNCHANGED <<reader, ev_run, module_count, startlog, storeVars, now, lpc, parserLocals, steps, stopped, fed, mainVars>>

\* ftp_upload() returns
SchFtpUpload ==
    /\ spc = "job"
    /\ steps # <<>>
    /\ Head(steps) = "ftp_upload"
    /\ steps' = Tail(steps)
    /\ UNCHANGED <<reader, ev_run, lock, module_count, startlog, storeVars, now, lpc, parserLocals, spc, stopped, fed, mainVars>>

\* ftp_upload() raises (the server is unreachable, a file is missing, ...)
SchFtpUploadFail ==
    /\ spc = "job"
    /\ steps # <<>>
    /\ Head(steps) = "ftp_upload"
    /\ spc' = "crashed"
    /\ UNCHANGED <<reader, ev_run, lock, module_count, startlog, storeVars, now, lpc, parserLocals, steps, stopped, fed, mainVars>>

\* run_pending() returns
SchJobsDone ==
    /\ spc = "job"
    /\ steps = <<>>
    /\ spc' = "sleep"
    /\ UNCHANGED <<reader, ev_run, lock, module_count, startlog, storeVars, now, lpc, parserLocals, steps, stopped, fed, mainVars>>

\* time.sleep(1)
SchSleep ==
    /\ spc = "sleep"
    /\ spc' = "while"
    /\ UNCHANGED <<reader, ev_run, lock, module_count, startlog, storeVars, now, lpc, parserLocals, steps, stopped, fed, mainVars>>

(***************************************************************************)
(* Specifications.                                                         *)
(***************************************************************************)
LogParser == LpStart \/ LpWhile \/ LpForEnd \/ LpSentinel \/ LpLine \/ LpAcquire \/ LpCommit \/ LpWriteFail

Scheduler ==
    \/ SchStart \/ SchWhile \/ SchRunPending \/ SchStatistics \/ SchGraph \/ SchAcquire
    \/ SchRead \/ SchGraphConnectFail \/ SchFtpUpload \/ SchFtpUploadFail \/ SchJobsDone \/ SchSleep

(***************************************************************************)
(* main after it has started the two threads (lines 872-881).              *)
(***************************************************************************)
\* the thread has ended: its loop is over, or an exception left it
ParserEnded == lpc \in {"done", "crashed"}

SchedulerEnded == spc \in {"done", "crashed"}

\* threads[0].join()
MainJoinParser ==
    /\ mpc = "join_parser"
    /\ ParserEnded
    /\ mpc' = "join_scheduler"
    /\ UNCHANGED <<reader, ev_run, lock, module_count, startlog, storeVars, now, lpc, parserLocals, schedVars, stopped, fed, closed>>

\* the second join left out: main goes on while the scheduler runs
MainJoinSchedulerNoWait ==
    /\ mpc = "join_scheduler"
    /\ mpc' = "close"
    /\ UNCHANGED <<reader, ev_run, lock, module_count, startlog, storeVars, now, lpc, parserLocals, schedVars, stopped, fed, closed>>

\* threads[1].join()
MainJoinScheduler ==
    /\ mpc = "join_scheduler"
    /\ SchedulerEnded
    /\ mpc' = "close"
    /\ UNCHANGED <<reader, ev_run, lock, module_count, startlog, storeVars, now, lpc, parserLocals, schedVars, stopped, fed, closed>>

\* reader.close()
MainClose ==
    /\ mpc = "close"
    /\ closed' = TRUE
    /\ mpc' = "exit"
    /\ UNCHANGED <<reader, ev_run, lock, module_count, startlog, storeVars, now, lpc, parserLocals, schedVars, stopped, fed>>

\* sys.exit(0)
MainExit ==
    /\ mpc = "exit"
    /\ mpc' = "exited"
    /\ UNCHANGED <<reader, ev_run, lock, module_count, startlog, storeVars, now, lpc, parserLocals, schedVars, stopped, fed, closed>>

Main == MainJoinParser \/ MainJoinScheduler \/ MainClose \/ MainExit

\* the program: both threads, either line source, signals
Next ==
    \/ JournalPoll(ConcLines, MaxLines)
    \/ SerialPoll(ConcLines, MaxLines)
    \/ SerialFail
    \/ LogParser
    \/ Scheduler
    \/ Signal

Spec == Init /\ [][Next]_vars

\* the program with the end of main: the joins, reader.close() and the exit
NextMain == Next \/ Main

SpecMain == Init /\ [][NextMain]_vars


\* the scheduling the code guarantees: each thread keeps running, a lock that stays
\* free is obtained, the serial read returns after its timeout (5 s).  Nothing
\* makes JournalReader.poll_read return (select.poll() without a timeout), a
\* signal arrive or an operation fail.
Fairness ==
    /\ WF_vars(LpStart) /\ WF_vars(LpWhile) /\ WF_vars(LpForEnd) /\ WF_vars(LpSentinel)
    /\ WF_vars(LpLine) /\ WF_vars(LpAcquire) /\ WF_vars(LpCommit)
    /\ WF_vars(SerialPoll(ConcLines, MaxLines))
    /\ WF_vars(SchStart) /\ WF_vars(SchWhile) /\ WF_vars(SchRunPending) /\ WF_vars(SchStatistics)
    /\ WF_vars(SchGraph) /\ WF_vars(SchAcquire) /\ WF_vars(SchRead) /\ WF_vars(SchFtpUpload)
    /\ WF_vars(SchJobsDone) /\ WF_vars(SchSleep)

FairSpec == Spec /\ Fairness

\* the scheduling of the lock alone: a locked block comes to its end, and a thread
\* blocked in "with lock" obtains a lock that is free again and again
LockFairness ==
    /\ WF_vars(LpCommit) /\ WF_vars(SchRead)
    /\ SF_vars(LpAcquire) /\ SF_vars(SchAcquire)

LockFairSpec == Spec /\ LockFairness

(***************************************************************************)
(* logParser alone, fed one line per poll from a wider set of lines.       *)
(***************************************************************************)
\* "0x0", "0xffffffff", "ffffffff"
Zero0x == <<0, XCH, 0>>

Bcast0x == Hex0x(F8)

\* "Al / #A"
NameA == <<"A", "l", " ", "/", " ", "#", "A">>

\* "1a2b3c4d", "5e6f7a8b"
N1 == <<1, 10, 2, 11, 3, 12, 4, 13>>

N2 == <<5, 14, 6, 15, 7, 10, 8, 11>>

\* "#Start>1a2b3c4d(5.00dB)>5e6f7a8b": split(">") gives "#Start", in which
\* regex_traceroute finds nothing, "1a2b3c4d(5.00dB)" and "5e6f7a8b"
StartLine == TraceLine(<<NoSeg, SegDb(N1, Db500), Seg(N2)>>)

\* the characters of a text, one string per character
AliceName ==
    <<"A", "l", "i", "c", "e", " ", "B", "a", "s", "e", " ", "S", "t", "a", "t", "i", "o", "n",
      " ", "/", " ", "#", "A", "L", "C">>

\* "0000abcd"
ABCD8 == <<0, 0, 0, 0, 10, 11, 12, 13>>

\* "user Alice Base Station / #ALC, id=0x0000abcd"
AliceLine == InfoLine(AliceName, ABCD8)

\* "a/b / #C"
NameTwoSlashes == <<"a", "/", "b", " ", "/", " ", "#", "C">>

ParseLines ==
    { RxLine("position", Hex0x(A8)), RxLine("Position", Hex0x(C8)),
      RxLine("position", Zero0x), RxLine("position", Bcast0x), RxLine("position", F8),
      RxLine("telemetry", Hex0x(A8)), RxLine("Telemetry", Hex0x(C8)),
      RxLine("telemetry", Zero0x), RxLine("powertelemetry", Bcast0x),
      RxLine("Routing", Hex0x(A8)), RxLine("routing", Bcast0x),
      RxLine("bogus", Hex0x(C8)), RxLine("bogus", Bcast0x), RxLine("admin", Hex0x(A8)),
      TeleLine({"ch1_voltage"}), TeleLine({"air_util_tx"}), TeleLine({"air_util_tx", "ch1_voltage"}),
      [RxLine("traceroute", Hex0x(C8)) EXCEPT !.tele = {"ch1_voltage"}],
      DecLine("decoded message"), Err7Line,
      InfoLine(NameA, A8), InfoLine(NameA, Z8), InfoLine(NameA, F8),
      PosLine(A8, 1, 2), PosLine(F8, 1, 2), RoleLine(A8, 2, 9), RoleLine(Z8, 2, 9),
      TraceLine(<<Seg(A8), SegDb(C8, Db500)>>), TraceLine(<<Seg(A8), Seg(F8), Seg(C8)>>),
      TraceLine(<<Seg(Z8), Seg(A8), Seg(A8)>>),
      StartLine, TraceLine(<<Seg(A8), Seg(C8)>>), TraceLine(<<Seg(A8), SegDb(C8, <<>>)>>),
      RxLine("routing", <<XCH>>), RxLine("bogus", <<0, XCH>>) }

Feed == \E l \in ParseLines \cup {NoneLine} : PollRead(<<l>>, MaxFeed)

NextParse == Feed \/ LogParser

SpecParse == Init /\ [][NextParse]_vars


(***************************************************************************)
(* logParser alone, fed traceroute lines while the clock advances.         *)
(***************************************************************************)
TraceLines ==
    { TraceLine(<<Seg(A8), SegDb(C8, Db500)>>), TraceLine(<<Seg(A8), Seg(C8)>>),
      TraceLine(<<Seg(C8), SegDb(A8, Db500)>>), TraceLine(<<Seg(A8), Seg(C8), SegDb(A8, <<MINUS, 2>>)>>),
      TraceLine(<<Seg(A8), Seg(F8)>>) }

FeedTrace == \E l \in TraceLines \cup {NoneLine} : PollRead(<<l>>, MaxFeed)

\* strftime('%s','now') moves on by a second
Tick ==
    /\ now < MaxTime
    /\ now' = now + 1
    /\ UNCHANGED <<reader, ev_run, lock, module_count, startlog, storeVars, lpc, parserLocals, schedVars, stopped, fed, mainVars>>

NextStore == FeedTrace \/ Tick \/ LogParser

SpecStore == Init /\ [][NextStore]_vars


(***************************************************************************)
(* logParser alone, fed node-info lines (and the telemetry line that opens *)
(* a continuation).                                                        *)
(***************************************************************************)
InfoLines ==
    { AliceLine, InfoLine(NameA, A8), InfoLine(NameTwoSlashes, C8), InfoLine(NameA, Z8),
      InfoLine(NameA, F8), InfoLine(<<" ", "/", "#">>, A8), RxLine("telemetry", Hex0x(A8)) }

FeedInfo == \E l \in InfoLines \cup {NoneLine} : PollRead(<<l>>, MaxFeed)

NextInfo == FeedInfo \/ LogParser

SpecInfo == Init /\ [][NextInfo]_vars


(***************************************************************************)
(* logParser alone, fed the lines that write table nodes (node-info,       *)
(* position, role and traceroute lines) while the clock advances.          *)
(***************************************************************************)
NodeLines ==
    { InfoLine(NameA, A8), InfoLine(NameTwoSlashes, A8), PosLine(A8, 1, 2), PosLine(C8, 3, 4),
      RoleLine(A8, 2, 9), TraceLine(<<Seg(A8), SegDb(C8, Db500)>>),
      TraceLine(<<Seg(A8), Seg(C8), SegDb(A8, <<MINUS, 2>>)>>),
      TraceLine(<<Seg(A8), Seg(A8), Seg(C8)>>) }

FeedNode == \E l \in NodeLines \cup {NoneLine} : PollRead(<<l>>, MaxFeed)

NextNodes == FeedNode \/ Tick \/ LogParser

SpecNodes == Init /\ [][NextNodes]_vars


(***************************************************************************)
(* logParser alone, fed lines in which several patterns are found.         *)
(***************************************************************************)
RuleLines ==
    { [DecLine("decoded message") EXCEPT !.err7 = TRUE],
      [InfoLine(NameA, Z8) EXCEPT !.pos = [m |-> TRUE, id |-> A8, lat |-> 1, lon |-> 2]],
      [InfoLine(NameA, A8) EXCEPT !.pos = [m |-> TRUE, id |-> A8, lat |-> 1, lon |-> 2],
                                  !.role = [m |-> TRUE, id |-> A8, role |-> 2, hw |-> 9]],
      [PosLine(F8, 1, 2) EXCEPT !.role = [m |-> TRUE, id |-> A8, role |-> 2, hw |-> 9], !.err7 = TRUE],
      [PosLine(A8, 1, 2) EXCEPT !.err7 = TRUE],
      [RoleLine(A8, 2, 9) EXCEPT !.err7 = TRUE, !.trace = [m |-> TRUE, segs |-> <<Seg(A8), Seg(C8)>>]],
      [RoleLine(Z8, 2, 9) EXCEPT !.trace = [m |-> TRUE, segs |-> <<Seg(A8), Seg(C8)>>]],
      [TraceLine(<<Seg(A8), Seg(C8)>>) EXCEPT !.err7 = TRUE],
      [RxLine("position", Hex0x(A8)) EXCEPT !.err7 = TRUE, !.info = [m |-> TRUE, name |-> NameA, id |-> C8]],
      [RxLine("routing", Hex0x(A8)) EXCEPT !.err7 = TRUE],
      [RxLine("position", Zero0x) EXCEPT !.pos = [m |-> TRUE, id |-> A8, lat |-> 1, lon |-> 2]],
      Err7Line, TraceLine(<<Seg(A8), Seg(C8)>>) }

FeedRule == \E l \in RuleLines \cup {NoneLine} : PollRead(<<l>>, MaxFeed)

NextRules == FeedRule \/ LogParser

SpecRules == Init /\ [][NextRules]_vars


(***************************************************************************)
(* logParser alone, fed the lines that write table packets while the clock *)
(* advances.                                                               *)
(***************************************************************************)
PacketLines ==
    { RxLine("position", Hex0x(A8)), RxLine("position", Hex0x(C8)), RxLine("text msg", Hex0x(A8)),
      RxLine("telemetry", Hex0x(A8)), TeleLine({"ch1_voltage"}), TeleLine({"heart_bpm"}) }

FeedPacket == \E l \in PacketLines \cup {NoneLine} : PollRead(<<l>>, MaxFeed)

NextPackets == FeedPacket \/ Tick \/ LogParser

SpecPackets == Init /\ [][NextPackets]_vars


(***************************************************************************)
(* logParser alone, fed counted events: each event is delivered as one     *)
(* batch holding its line (its two lines for a telemetry packet).          *)
(***************************************************************************)
CountEvents ==
    { [cat |-> "position",       lines |-> <<RxLine("position", Hex0x(A8))>>],
      [cat |-> "text msg",       lines |-> <<RxLine("text msg", Hex0x(C8))>>],
      [cat |-> "PowerTelemetry", lines |-> <<RxLine("telemetry", Hex0x(A8)), TeleLine({"ch1_voltage"})>>],
      [cat |-> "decoded",        lines |-> <<DecLine("decoded message")>>],
      [cat |-> "encrypted",      lines |-> <<DecLine("no PSK")>>],
      [cat |-> "error7",         lines |-> <<Err7Line>>] }

\* reader.poll_read() returns the lines of one event
FeedEvent ==
    \E ev \in CountEvents :
        /\ lpc = "poll"
        /\ nread + Len(ev.lines) <= MaxFeed
        /\ batch' = ev.lines
        /\ nread' = nread + Len(ev.lines)
        /\ lpc' = "for"
        /\ fed' = [fed EXCEPT ![ev.cat] = @ + 1]
        /\ UNCHANGED <<reader, ev_run, lock, module_count, startlog, storeVars, now,
                       is_telemetry_packet, telemetry_from_id, todo, after, prev, cur, eff,
                       schedVars, stopped, mainVars>>

FeedNone == PollRead(<<NoneLine>>, MaxFeed)

NextCount == FeedEvent \/ FeedNone \/ LogParser

SpecCount == Init /\ [][NextCount]_vars


(***************************************************************************)
(* Claims.                                                                 *)
(***************************************************************************)
\* the ids the claims call invalid: 0 and 0xFFFFFFFF
BadId(id) == id = IdOf(0, 0) \/ id = IdOf(65535, 65535)

\* the line is a packet-received line whose source id converts to 0 or 0xFFFFFFFF
RxBadId(line) == line.rx.m /\ HexValid(line.rx.from) /\ BadId(IntHex(line.rx.from))

\* the ids a locked block writes
OpIds(op) ==
    CASE op.k = "setmc" -> {}
      [] op.k = "hop" -> {op.source, op.dest}
      [] OTHER -> {op.id}

\* C1: no effect is ever applied for an id equal to 0 or 0xFFFFFFFF: no row of
\* packets or nodes and no endpoint of links has such an id, no block that is
\* still to run writes one, the continuation state never holds one as the origin
\* of a telemetry packet, and a packet-received line with such a source id has no
\* effect at all (no counter incremented, nothing written).
C1_NoIgnoredId ==
    /\ \A k \in DOMAIN packets : ~BadId(k[1])
    /\ \A id \in DOMAIN nodes : ~BadId(id)
    /\ \A k \in DOMAIN links : ~BadId(k[1]) /\ ~BadId(k[2])
    /\ \A i \in 1..Len(todo) : \A id \in OpIds(todo[i]) : ~BadId(id)
    /\ is_telemetry_packet => ~BadId(telemetry_from_id)
    /\ RxBadId(cur) => eff = <<>> /\ todo = <<>>

\* a telemetry line whose continuation was cancelled by a packet-received line
\* with the broadcast id, then a detail line, all handled, with rows in the store
C1_Witness ==
    /\ lpc = "for"
    /\ RxBadId(prev)
    /\ cur = TeleLine({"ch1_voltage"})
    /\ eff = <<>>
    /\ packets # EmptyTable


\* the line is a packet-received line of category telemetry with a valid source id
TelemetryRx(line) ==
    /\ line.rx.m
    /\ Lower(line.rx.type) = "telemetry"
    /\ HexValid(line.rx.from)
    /\ ~BadId(IntHex(line.rx.from))

\* C2: a telemetry line from X followed by a line containing "ch1_voltage" yields,
\* once the second line is handled, exactly the increment of PowerTelemetry and
\* the packets upsert (X, 513); the telemetry line followed by any line that
\* contains none of the six field names yields no effect from the second line;
\* and the telemetry line itself yields no effect.
C2_TelemetryPair ==
    /\ (TelemetryRx(prev) /\ "ch1_voltage" \in cur.tele /\ lpc = "for") =>
            eff = << [e |-> "inc", key |-> "PowerTelemetry"],
                     [e |-> "write", op |-> [k |-> "telemetry", id |-> IntHex(prev.rx.from), type |-> 513]] >>
    /\ (TelemetryRx(prev) /\ cur.tele = {}) => eff = <<>>
    /\ TelemetryRx(cur) => eff = <<>>


\* C3: every access to the store happens under the lock of the thread that makes
\* it: logParser is inside a block that writes only while it holds the lock, a
\* job is inside its store read only while it holds the lock, the two are never
\* inside at the same time, and the tables change only in a step that logParser
\* takes from inside its block, holding the lock.
C3_StoreUnderLock ==
    /\ [](/\ lpc = "in" => lock = "lp"
          /\ spc = "in" => lock = "sch"
          /\ ~(lpc = "in" /\ spc = "in"))
    /\ [][storeVars' # storeVars => lpc = "in" /\ lock = "lp"]_vars

\* a job reads the store while logParser, with rows already written, waits for
\* the lock to write the next one
C3_Witness ==
    /\ spc = "in"
    /\ lock = "sch"
    /\ lpc = "lock"
    /\ todo # <<>>
    /\ Head(todo).k # "setmc"
    /\ packets # EmptyTable

\* the step in which statistics reads the counters (startlog is set)
StatisticsReadsCounters ==
    /\ spc = "job"
    /\ steps # <<>>
    /\ Head(steps) \in StatisticsSteps
    /\ startlog # "None"
    /\ <<spc, steps>>' # <<spc, steps>>

\* C4: every increment of a counter by logParser happens while logParser holds
\* the lock, and every read of the counters by statistics happens while the
\* scheduler thread holds the lock.
C4_CountersUnderLock ==
    [][/\ module_count' # module_count => lock = "lp"
       /\ StatisticsReadsCounters => lock = "sch"]_vars

\* a packet event whose counter is incremented and whose packets row is not written
HalfApplied ==
    /\ todo # <<>>
    /\ Head(todo).k \in {"packet", "telemetry"}
    /\ eff # <<>>

\* C5: whenever a job reads the counters, every packet event is either fully
\* applied (counter incremented and row written) or not applied at all.
C5_JobSeesWholeEvents == [][StatisticsReadsCounters => ~HalfApplied]_vars

\* C6: after the run flag is cleared both loops terminate, logParser after at most
\* one further return of poll_read and scheduleRunner after at most one further
\* run_pending, whatever the line source does.
C6_StopTerminates ==
    /\ [](stopped.polls <= 1 /\ stopped.ticks <= 1)
    /\ (~ev_run ~> (lpc \in {"done", "crashed"} /\ spc \in {"done", "crashed"}))

\* C7: a line taken from a batch while the run flag is cleared is not applied: no
\* counter is incremented and no store write is queued for it.
C7_NoMutationAfterStop ==
    [][(~ev_run /\ lpc = "for" /\ batch # <<>> /\ ~Head(batch).nil)
         => /\ module_count' = module_count
            /\ \A i \in 1..Len(todo') : todo'[i].k = "setmc"]_vars

\* C8: on the None sentinel logParser clears the run flag and leaves the for loop
\* with the rest of the batch dropped; afterwards it takes no line and issues no
\* poll, changes neither counters nor store, and goes only to the flag check and
\* out of the loop; the scheduler's next flag check leaves its loop.
C8_SentinelStops ==
    /\ [](stopped.sentinel => ~ev_run /\ batch = <<>> /\ lpc \in {"while", "done"})
    /\ [][stopped.sentinel =>
            /\ nread' = nread /\ cur' = cur /\ eff' = eff
            /\ module_count' = module_count /\ storeVars' = storeVars
            /\ (spc = "while" /\ spc' # spc => spc' = "done")]_vars

\* the serial read failed after lines were handled, and both loops have ended
C8_Witness ==
    /\ stopped.sentinel
    /\ nread > 0
    /\ lpc = "done"
    /\ spc = "done"

\* C9: when a store write of logParser fails the lock is released, the run flag
\* is unchanged and logParser goes on with the next line of the batch.
C9_WriteFailureCaught ==
    [][(lpc = "in" /\ lpc' # "in" /\ todo' = todo)
         => lock' = "free" /\ ev_run' = ev_run /\ lpc' = "for"]_vars

\* C10: no failure of a step of a job ends the scheduler loop.
C10_JobFailureCaught == spc # "crashed"

\* C11: the nodes table holds a row for every valid id that was applied as a
\* packet source (it has a packets row), as an endpoint of an accepted hop (it is
\* an endpoint of a links row), or as the subject of a node-info, position or role
\* block that has run for the current line.
C11_NodeRowForEveryId ==
    /\ \A k \in DOMAIN packets : k[1] \in DOMAIN nodes
    /\ \A k \in DOMAIN links : k[1] \in DOMAIN nodes /\ k[2] \in DOMAIN nodes
    /\ \A i \in 1..Len(eff) :
          eff[i].e = "write" => \A id \in OpIds(eff[i].op) : id \in DOMAIN nodes

\* logParser takes the next line of the batch, with no telemetry continuation open
TakesLine(line) ==
    /\ lpc = "for"
    /\ batch # <<>>
    /\ Head(batch) = line
    /\ batch' = Tail(batch)
    /\ ~is_telemetry_packet

\* C12: the line "#Start>1a2b3c4d(5.00dB)>5e6f7a8b" applies exactly one hop, the
\* links upsert (0x1a2b3c4d, 0x5e6f7a8b, 5.00) marked as the first hop, and the
\* loop goes on to the next line.
C12_StartLineOneHop ==
    [][TakesLine(StartLine) =>
          /\ todo' = << [k |-> "hop", source |-> IdOf(6699, 15437), dest |-> IdOf(24175, 31371),
                         snr |-> 500000, first |-> TRUE] >>
          /\ ~after'.crash
          /\ lpc' # "crashed"]_vars

\* the line is a traceroute line and nothing else, and the hop pattern finds a
\* node id in each of its segments
TraceOnly(line) ==
    /\ line.trace.m
    /\ line = TraceLine(line.trace.segs)
    /\ \A i \in 1..Len(line.trace.segs) : line.trace.segs[i].m

\* C13: a traceroute line whose segments all hold a node id never makes logParser
\* fail, whatever its dB annotations are, and a hop whose annotation is missing
\* is written with the SNR -500.
C13_DbNeverFails ==
    [][(batch # <<>> /\ TakesLine(Head(batch)) /\ TraceOnly(Head(batch))) =>
          /\ ~after'.crash
          /\ lpc' # "crashed"
          /\ \A i \in 1..Len(todo') :
                (Len(Head(batch).trace.segs) = 2 /\ ~Head(batch).trace.segs[2].db.m)
                    => todo'[i].snr = -50000000]_vars

\* the category texts of the fed lines that read "routing" in some letter case
RoutingNames == {"routing", "Routing"}

\* C14: handling a packet-received line of category routing changes no counter,
\* queues and makes no store write, leaves is_telemetry_packet and
\* telemetry_from_id as they were and goes on with the batch, whatever the source
\* id text of the line and whatever the continuation state.
C14_RoutingChangesNothing ==
    [][(/\ lpc = "for"
        /\ batch # <<>>
        /\ batch' = Tail(batch)
        /\ Head(batch).rx.m
        /\ Head(batch).rx.type \in RoutingNames) =>
          /\ module_count' = module_count
          /\ storeVars' = storeVars
          /\ todo' = <<>>
          /\ eff' = <<>>
          /\ is_telemetry_packet' = is_telemetry_packet
          /\ telemetry_from_id' = telemetry_from_id
          /\ lpc' = "for"]_vars

\* a routing line handled while the continuation opened by a telemetry line is
\* pending, after a packet was stored
C14_Witness ==
    /\ lpc = "for"
    /\ cur.rx.m
    /\ cur.rx.type \in RoutingNames
    /\ TelemetryRx(prev)
    /\ is_telemetry_packet
    /\ telemetry_from_id = IntHex(prev.rx.from)
    /\ packets # EmptyTable

\* C15: a links upsert for the pair (source, dest) leaves exactly the rows that
\* were there plus the row of the pair, whose SNR and timestamp are those of this
\* upsert, and changes no row of another pair; nothing else changes the table.  So
\* after N upserts the one row of a pair is that of the Nth.
C15_LinkUpsertKeepsLast ==
    /\ [][(lpc = "in" /\ todo # <<>> /\ Head(todo).k = "hop" /\ todo' = Tail(todo)) =>
            /\ DOMAIN links' = DOMAIN links \cup {<<Head(todo).source, Head(todo).dest>>}
            /\ links'[<<Head(todo).source, Head(todo).dest>>] = [snr |-> Head(todo).snr, seen |-> now]
            /\ \A q \in DOMAIN links \ {<<Head(todo).source, Head(todo).dest>>} : links'[q] = links[q]]_vars
    /\ [][links' # links => (lpc = "in" /\ todo # <<>> /\ Head(todo).k = "hop" /\ todo' = Tail(todo))]_vars

\* the pair (0x1a, 0x2b) upserted with 5.00 dB and then, two seconds after the
\* row of the opposite pair was written, without annotation
C15_Witness ==
    /\ lpc = "for"
    /\ prev = TraceLine(<<Seg(A8), SegDb(C8, Db500)>>)
    /\ cur = TraceLine(<<Seg(A8), Seg(C8)>>)
    /\ now = 2
    /\ DOMAIN links = {<<IdOf(0, 26), IdOf(0, 43)>>, <<IdOf(0, 43), IdOf(0, 26)>>}
    /\ links[<<IdOf(0, 26), IdOf(0, 43)>>] = [snr |-> -50000000, seen |-> 2]
    /\ links[<<IdOf(0, 43), IdOf(0, 26)>>] = [snr |-> 500000, seen |-> 0]

\* the total of a category (a category the counters do not hold has none)
Total(cat) == IF cat \in DOMAIN module_count THEN module_count[cat] ELSE 0

\* C16: once every delivered event has been handled (logParser is back at the
\* poll, or has ended), the total of each category equals the number of events of
\* that category that were delivered; the totals then do not depend on the order
\* of delivery.
C16_TotalsAreCounts ==
    lpc \in {"poll", "done", "crashed"} => \A c \in CountCats : Total(c) = fed[c]

\* t is s without its leading and trailing ' ' and '#'
Trimmed(s, t) ==
    \E a, b \in 0..Len(s) :
        /\ a + b <= Len(s)
        /\ t = SubSeq(s, a + 1, Len(s) - b)
        /\ \A i \in 1..a : s[i] \in {" ", "#"}
        /\ \A i \in (Len(s) - b + 1)..Len(s) : s[i] \in {" ", "#"}
        /\ t # <<>> => (t[1] \notin {" ", "#"} /\ t[Len(t)] \notin {" ", "#"})

\* the non-empty texts that s trimmed can be
TrimmedTexts(s) == {t \in {SubSeq(s, i, j) : i, j \in 1..Len(s)} : t # <<>> /\ Trimmed(s, t)}

\* op carries the name split at its last '/': what follows it, trimmed, as short
\* name and what precedes it, trimmed, as long name (for the parts that are not
\* empty once trimmed)
SplitAtLastSlash(name, op) ==
    \E p \in 1..Len(name) :
        /\ name[p] = "/"
        /\ \A j \in (p + 1)..Len(name) : name[j] # "/"
        /\ \A t \in TrimmedTexts(SubSeq(name, p + 1, Len(name))) : op.shortname = [k |-> "text", v |-> t]
        /\ \A t \in TrimmedTexts(SubSeq(name, 1, p - 1)) : op.longname = [k |-> "text", v |-> t]

\* C17: the line "user Alice Base Station / #ALC, id=0x0000abcd" queues exactly the
\* upsert of node 0xabcd with short name "ALC" and long name "Alice Base Station";
\* every node-info line with a valid id and a '/' in its name queues the upsert
\* of its id with the name split at the last '/' and trimmed; and the block, when
\* it runs, writes these names into the row of the node.
C17_NodeInfoNames ==
    /\ [][TakesLine(AliceLine) =>
            /\ todo' = << [k |-> "info", id |-> IdOf(0, 43981),
                           shortname |-> [k |-> "text", v |-> <<"A", "L", "C">>],
                           longname |-> [k |-> "text", v |-> SubSeq(AliceName, 1, 18)]] >>
            /\ lpc' = "lock"]_vars
    /\ [][(/\ batch # <<>>
           /\ TakesLine(Head(batch))
           /\ Head(batch) = InfoLine(Head(batch).info.name, Head(batch).info.id)
           /\ Head(batch).info.m
           /\ ~BadId(IntHex(Head(batch).info.id))
           /\ \E i \in 1..Len(Head(batch).info.name) : Head(batch).info.name[i] = "/") =>
            /\ Len(todo') = 1
            /\ todo'[1].k = "info"
            /\ todo'[1].id = IntHex(Head(batch).info.id)
            /\ SplitAtLastSlash(Head(batch).info.name, todo'[1])]_vars
    /\ [][(lpc = "in" /\ todo # <<>> /\ Head(todo).k = "info" /\ todo' = Tail(todo)) =>
            /\ Head(todo).id \in DOMAIN nodes'
            /\ nodes'[Head(todo).id].shortname = Head(todo).shortname
            /\ nodes'[Head(todo).id].longname = Head(todo).longname]_vars

\* the line of the example has been handled and its row is in the table
C17_Witness ==
    /\ lpc = "for"
    /\ cur = AliceLine
    /\ IdOf(0, 43981) \in DOMAIN nodes
    /\ nodes[IdOf(0, 43981)].shortname = [k |-> "text", v |-> <<"A", "L", "C">>]
    /\ nodes[IdOf(0, 43981)].longname = [k |-> "text", v |-> SubSeq(AliceName, 1, 18)]

\* no test of logParser finds anything in the line (a telemetry field name counts
\* only while a continuation is pending)
NoPattern(line, istel) ==
    /\ ~line.rx.m
    /\ line.tele = {} \/ ~istel
    /\ line.dec = ""
    /\ ~line.info.m /\ ~line.pos.m /\ ~line.role.m
    /\ ~line.err7
    /\ ~line.trace.m

\* the category texts of the fed lines that name an entry of port_numbers in some
\* letter case
KnownNames == DOMAIN port_numbers \cup {"Position", "Telemetry", "Routing"}

\* C18: a line in which no pattern is found, and a packet-received line whose
\* category is not in port_numbers, change no counter, queue no store write and
\* do not end logParser, which goes on with the batch.
C18_UnrecognizedNotFatal ==
    [][(/\ lpc = "for"
        /\ batch # <<>>
        /\ batch' = Tail(batch)
        /\ ~Head(batch).nil
        /\ \/ NoPattern(Head(batch), is_telemetry_packet)
           \/ (Head(batch).rx.m /\ Head(batch).rx.type \notin KnownNames)) =>
          /\ module_count' = module_count
          /\ \A i \in 1..Len(todo') : todo'[i].k = "setmc"
          /\ ~after'.crash
          /\ lpc' # "crashed"]_vars

\* the category whose counter the line increments when logParser takes it with no
\* continuation pending ("" if none): a packet category that is neither routing
\* nor telemetry (for a valid source id), a decoding outcome, the CRC error
CountedCategory(line) ==
    IF line.rx.m
    THEN IF /\ line.rx.type \in DOMAIN port_numbers
            /\ port_numbers[line.rx.type] \notin {5, 67}
            /\ HexValid(line.rx.from)
            /\ ~BadId(IntHex(line.rx.from))
         THEN line.rx.type ELSE ""
    ELSE IF line.dec = "decoded message" THEN "decoded"
    ELSE IF line.dec = "no PSK" THEN "encrypted"
    ELSE IF line = Err7Line THEN "error7"
    ELSE ""

\* C19: the increment a line makes never fails for want of its category: after
\* the line is taken its category is in the counters, one above its former total
\* (0 when it was absent), and logParser has not ended.
C19_IncrementCreatesCategory ==
    [][(batch # <<>> /\ TakesLine(Head(batch)) /\ CountedCategory(Head(batch)) # "") =>
          /\ CountedCategory(Head(batch)) \in DOMAIN module_count'
          /\ module_count'[CountedCategory(Head(batch))] = Total(CountedCategory(Head(batch))) + 1
          /\ lpc' # "crashed"]_vars

\* C20: the run flag is set when the threads start; a step that changes nothing
\* but the flag (the handler of SIGINT, SIGABRT or SIGTERM) leaves it cleared,
\* each signal clears a set flag, and no step of the program sets a cleared flag.
C20_RunFlagMonotone ==
    /\ ev_run = TRUE
    /\ [][~ev_run => ~ev_run']_vars
    /\ [][(UNCHANGED <<reader, lock, module_count, startlog, storeVars, now, lpc, parserLocals,
                       schedVars, stopped, fed, mainVars>>) => ~ev_run']_vars
    /\ [](\A sig \in Signals : ENABLED (SignalHandler(sig) /\ ~ev_run'))

\* the flag was cleared by a signal (not by the None sentinel) while logParser was
\* in its poll, after the scheduler had begun a second round
C20_Witness ==
    /\ ~ev_run
    /\ ~stopped.sentinel
    /\ lpc = "poll"
    /\ nread > 0
    /\ spc = "pending"

\* the line is a packet-received line with a valid source id and a category of
\* port_numbers that is neither routing nor telemetry
CountedRx(line) ==
    /\ line.rx.m
    /\ line.rx.type \in DOMAIN port_numbers
    /\ port_numbers[line.rx.type] \notin {5, 67}
    /\ HexValid(line.rx.from)
    /\ ~BadId(IntHex(line.rx.from))

\* the blocks of todo that write a table
StoreWrites(ops) == SelectSeq(ops, LAMBDA op : op.k # "setmc")

\* C21: taking a packet-received line of a counted category from X increments the
\* counter of the category by one and queues exactly the packets upsert (X, code);
\* taking the detail line of a telemetry pair increments one counter by one and
\* queues exactly one packets upsert for the origin with a code 512..517; and a
\* queued packets upsert, once its block is entered, is committed: the increment
\* is never left without its row.
C21_PacketBothEffects ==
    /\ [][(lpc = "for" /\ batch # <<>> /\ batch' = Tail(batch) /\ CountedRx(Head(batch))) =>
            /\ Head(batch).rx.type \in DOMAIN module_count'
            /\ module_count'[Head(batch).rx.type] = Total(Head(batch).rx.type) + 1
            /\ StoreWrites(todo') = << [k |-> "packet", id |-> IntHex(Head(batch).rx.from),
                                        type |-> port_numbers[Head(batch).rx.type]] >>]_vars
    /\ [][(/\ lpc = "for" /\ batch # <<>> /\ batch' = Tail(batch)
           /\ is_telemetry_packet /\ ~Head(batch).rx.m /\ ~Head(batch).nil
           /\ Head(batch).tele # {}) =>
            /\ \E c \in DOMAIN module_count :
                  module_count' = [module_count EXCEPT ![c] = @ + 1]
            /\ Len(todo') = 1
            /\ todo'[1].k = "telemetry"
            /\ todo'[1].id = telemetry_from_id
            /\ todo'[1].type \in 512..517]_vars
    /\ [][(lpc = "in" /\ lpc' # "in" /\ todo # <<>> /\ Head(todo).k \in {"packet", "telemetry"}) =>
            /\ todo' = Tail(todo)
            /\ <<Head(todo).id, Head(todo).type>> \in DOMAIN packets']_vars

\* the counter a decode-outcome or CRC-mismatch line is counted under
SimpleCounter(line) ==
    IF line.dec = "decoded message" THEN "decoded"
    ELSE IF line.dec = "no PSK" THEN "encrypted"
    ELSE "error7"

\* the line is handled by the decode-outcome rule or by the CRC-mismatch rule
SimpleCounted(line) ==
    /\ ~line.rx.m
    /\ ~line.nil
    /\ \/ line.dec # ""
       \/ line.err7 /\ ~line.info.m /\ ~line.pos.m /\ ~line.role.m

\* C22: a decode-outcome line increases exactly the counter decoded or encrypted
\* by one, a CRC-mismatch line exactly error7; every other counter keeps its
\* value, nothing is queued for the store and the loop goes on to the next line.
C22_OnlyOneCounter ==
    [][(/\ lpc = "for" /\ batch # <<>> /\ batch' = Tail(batch)
        /\ ~is_telemetry_packet /\ SimpleCounted(Head(batch))) =>
        /\ DOMAIN module_count' = DOMAIN module_count \cup {SimpleCounter(Head(batch))}
        /\ module_count'[SimpleCounter(Head(batch))] = Total(SimpleCounter(Head(batch))) + 1
        /\ \A c \in DOMAIN module_count :
              c # SimpleCounter(Head(batch)) => module_count'[c] = module_count[c]
        /\ StoreWrites(todo') = <<>>
        /\ lpc' # "crashed"]_vars

\* the columns of a row of table nodes
NodeColumns ==
    {"shortname", "longname", "seen", "latitude", "longitude", "role", "hardware", "tracestart"}

\* column f has the same value in rows a and b (a text is compared with a text
\* only, a number with a number only)
SameColumn(a, b, f) ==
    IF f \in {"shortname", "longname", "latitude", "longitude"}
    THEN a[f].k = b[f].k /\ a[f].v = b[f].v
    ELSE a[f] = b[f]

\* the columns of row j that the committed block op may change
MayChange(op, j, f) ==
    CASE op.k = "info" -> j = op.id /\ f \in {"shortname", "longname", "seen"}
      [] op.k = "pos"  -> j = op.id /\ f \in {"seen", "latitude", "longitude"}
      [] op.k = "role" -> j = op.id /\ f \in {"role", "hardware"}
      [] op.k = "hop"  -> \/ j \in {op.source, op.dest} /\ f = "seen"
                          \/ j = op.source /\ f = "tracestart" /\ op.first
      [] OTHER -> FALSE

\* the rows the committed block op may insert
MayInsert(op, j) ==
    \/ op.k = "info" /\ j = op.id
    \/ op.k = "hop" /\ j \in {op.source, op.dest}

\* the line is handled by the node-info, position, role or traceroute rule
NodeRuleLine(line) ==
    /\ ~line.nil /\ ~line.rx.m /\ line.dec = ""
    /\ \/ line.info.m
       \/ line.pos.m
       \/ line.role.m
       \/ line.trace.m /\ ~line.err7

\* C23: a committed node-info, position, role or hop block changes, in the rows
\* that exist, only the columns of its own rule (names and last-seen; latitude,
\* longitude and last-seen; role and hardware; last-seen of the two endpoints and
\* the trace-origin count of the source of a first hop), keeps every row, inserts
\* a row only for the node of a node-info line or an endpoint of a hop, and
\* neither the block nor the line it comes from changes a counter.
C23_NodeWritesAreScoped ==
    /\ [][(lpc = "in" /\ todo # <<>> /\ todo' = Tail(todo)) =>
            /\ module_count' = module_count
            /\ \A j \in DOMAIN nodes :
                  /\ j \in DOMAIN nodes'
                  /\ \A f \in NodeColumns :
                        ~SameColumn(nodes'[j], nodes[j], f) => MayChange(Head(todo), j, f)
            /\ \A j \in DOMAIN nodes' \ DOMAIN nodes : MayInsert(Head(todo), j)]_vars
    /\ [][(/\ lpc = "for" /\ batch # <<>> /\ batch' = Tail(batch)
           /\ ~is_telemetry_packet /\ NodeRuleLine(Head(batch))) =>
            module_count' = module_count]_vars

\* a row that a node-info line, a position line and a role line have written
C23_Witness ==
    \E j \in DOMAIN nodes :
        /\ nodes[j].shortname.k = "text"
        /\ nodes[j].latitude.k = "int"
        /\ nodes[j].role # 0

\* C24: while a telemetry detail line is awaited, the next line is consumed as the
\* detail line whatever it contains: it queues nothing but a telemetry write and
\* the parser is back in state NONE once the line is handled (at once when nothing
\* is queued, with the commit of the telemetry write otherwise).
C24_ContinuationOneLine ==
    [][(/\ lpc = "for" /\ batch # <<>> /\ batch' = Tail(batch)
        /\ is_telemetry_packet /\ ~Head(batch).nil) =>
        /\ \A i \in DOMAIN todo' : todo'[i].k = "telemetry"
        /\ todo' = <<>> => ~is_telemetry_packet'
        /\ todo' # <<>> => after'.reset]_vars

\* C26: while a telemetry detail line is awaited, no line other than a
\* packet-received line of the telemetry category (which opens a continuation of
\* its own) changes the origin id the detail line will be attributed to.
C26_OriginKept ==
    [][(/\ lpc = "for" /\ batch # <<>> /\ batch' = Tail(batch)
        /\ is_telemetry_packet /\ is_telemetry_packet'
        /\ ~TelemetryRx(Head(batch))) =>
        telemetry_from_id' = telemetry_from_id]_vars

\* the first rule, in the order of section 4.1, whose pattern the line satisfies
FirstRule(line) ==
    IF line.rx.m THEN "rx"
    ELSE IF line.dec # "" THEN "dec"
    ELSE IF line.info.m THEN "info"
    ELSE IF line.pos.m THEN "pos"
    ELSE IF line.role.m THEN "role"
    ELSE IF line.err7 THEN "err7"
    ELSE IF line.trace.m THEN "trace"
    ELSE "none"

\* the kind of store write a rule makes
RuleWrites(r) ==
    CASE r = "rx" -> {"packet"}
      [] r = "info" -> {"info"}
      [] r = "pos" -> {"pos"}
      [] r = "role" -> {"role"}
      [] r = "trace" -> {"hop"}
      [] OTHER -> {}

\* the counters a rule increments
RuleCounters(r) ==
    CASE r = "rx" -> DOMAIN module_count \ {"decoded", "encrypted", "error7"}
      [] r = "dec" -> {"decoded", "encrypted"}
      [] r = "err7" -> {"error7"}
      [] OTHER -> {}

\* the id the first rule of the line tests, for the rules that test one
RuleId(line) ==
    CASE FirstRule(line) = "info" -> line.info.id
      [] FirstRule(line) = "pos" -> line.pos.id
      [] FirstRule(line) = "role" -> line.role.id

\* C25: outside the continuation state a line has the effects of one rule only,
\* the first whose pattern it satisfies in the order packet-received,
\* decode-outcome, node-identity, position, role, CRC-mismatch, traceroute: every
\* store write it queues and every counter it changes is of that rule; when that
\* rule is node-identity, position or role it queues its one write, or nothing
\* at all when it rejects the id; when it is CRC-mismatch error7 grows by one.
C25_FirstRuleOnly ==
    [][(/\ lpc = "for" /\ batch # <<>> /\ batch' = Tail(batch)
        /\ ~is_telemetry_packet /\ ~Head(batch).nil) =>
        LET line == Head(batch)
            r == FirstRule(line)
        IN  /\ \A i \in DOMAIN todo' : todo'[i].k \in RuleWrites(r) \cup {"setmc"}
            /\ DOMAIN module_count' = DOMAIN module_count
            /\ \A c \in DOMAIN module_count :
                  module_count'[c] # module_count[c] => c \in RuleCounters(r)
            /\ r \in {"info", "pos", "role"} =>
                  IF BadId(IntHex(RuleId(line)))
                  THEN todo' = <<>>
                  ELSE Len(todo') = 1 /\ todo'[1].k = r /\ todo'[1].id = IntHex(RuleId(line))
            /\ r = "err7" => module_count'["error7"] = module_count["error7"] + 1]_vars

\* a line in which the node-info pattern finds an ignored id and the position
\* pattern a valid one has been handled, and nothing was written for it
C25_Witness ==
    /\ lpc = "for"
    /\ cur.info.m
    /\ cur.pos.m
    /\ BadId(IntHex(cur.info.id))
    /\ ~BadId(IntHex(cur.pos.id))
    /\ eff = <<>>
    /\ nodes = EmptyTable

\* the trace-origin count of node j (0 while the node has no row)
TraceStarts(tbl, j) == IF j \in DOMAIN tbl THEN tbl[j].tracestart ELSE 0

\* C27: the trace-origin count of a node grows by one with the commit of a hop
\* block that is the first hop of its line and has the node as source, and is
\* changed by no other step (no node-info, position or role write, no touch and
\* no later hop resets or increases it); and a hop block is marked first only when
\* it is the hop between the first two segments of its line.
C27_TraceStartCountsFirstHops ==
    /\ [][\A j \in DOMAIN nodes \cup DOMAIN nodes' :
            TraceStarts(nodes', j) = TraceStarts(nodes, j) +
                (IF /\ lpc = "in" /\ todo # <<>> /\ todo' = Tail(todo)
                    /\ Head(todo).k = "hop" /\ Head(todo).first /\ Head(todo).source = j
                 THEN 1 ELSE 0)]_vars
    /\ [][(/\ lpc = "for" /\ batch # <<>> /\ batch' = Tail(batch)
           /\ ~is_telemetry_packet /\ TraceOnly(Head(batch))) =>
            \A i \in DOMAIN todo' :
                (todo'[i].k = "hop" /\ todo'[i].first) =>
                    /\ i = 1
                    /\ todo'[i].source = IntHex(Head(batch).trace.segs[1].id)
                    /\ todo'[i].dest = IntHex(Head(batch).trace.segs[2].id)]_vars

\* a node-info line has been written into the row of a node that started a trace
C27_Witness ==
    /\ lpc = "for"
    /\ cur.info.m
    /\ eff # <<>>
    /\ TraceStarts(nodes, IntHex(cur.info.id)) = 1

\* the segments of a traceroute line in which a node id is found
IdSegs(segs) == SelectSeq(segs, LAMBDA s : s.m)

\* the positions of the adjacent pairs of node ids that are valid and distinct
ValidPairs(ids) ==
    {i \in 1..(Len(ids) - 1) :
        /\ ~BadId(IntHex(ids[i].id))
        /\ ~BadId(IntHex(ids[i + 1].id))
        /\ IntHex(ids[i].id) # IntHex(ids[i + 1].id)}

\* C28: a traceroute line queues one hop block for every adjacent pair of node ids
\* that are valid and distinct and no other block, whatever pairs it rejects on
\* the way, and handling it does not end logParser; no row of links has its
\* source equal to its destination.
C28_OneUpsertPerValidPair ==
    /\ [][(/\ lpc = "for" /\ batch # <<>> /\ batch' = Tail(batch)
           /\ ~is_telemetry_packet /\ Head(batch) = TraceLine(Head(batch).trace.segs)
           /\ Head(batch).trace.m) =>
            LET ids == IdSegs(Head(batch).trace.segs) IN
            /\ Len(todo') = Cardinality(ValidPairs(ids))
            /\ \A i \in ValidPairs(ids) :
                  \E n \in DOMAIN todo' :
                      /\ todo'[n].k = "hop"
                      /\ todo'[n].source = IntHex(ids[i].id)
                      /\ todo'[n].dest = IntHex(ids[i + 1].id)
            /\ ~after'.crash]_vars
    /\ [](\A key \in DOMAIN links : key[1] # key[2])

C30_StopsOnlyWithFlagCleared ==
    lpc \in {"done", "crashed"} => ~ev_run

\* C31: the lock is held by a thread only while the thread is inside a locked
\* block, a thread that leaves a block, by its end or by an exception, leaves the
\* lock free, a held lock is eventually free again, and a thread waiting for the
\* lock eventually enters its block.
C31_LockAlwaysReleased ==
    /\ [](lock = "lp" <=> lpc = "in")
    /\ [](lock = "sch" <=> spc = "in")
    /\ [][(lpc = "in" /\ lpc' # "in") => lock' = "free"]_vars
    /\ [][(spc = "in" /\ spc' # "in") => lock' = "free"]_vars
    /\ (lock # "free") ~> (lock = "free")
    /\ (lpc = "lock") ~> (lpc = "in")
    /\ (spc = "lock") ~> (spc = "in")

\* a write of logParser has failed inside its block, logParser has ended, and the
\* scheduler holds the lock
C31_Witness ==
    /\ lpc = "crashed"
    /\ todo # <<>>
    /\ Head(todo).k # "setmc"
    /\ lock = "sch"
    /\ spc = "in"

\* the rows of links that a step writes
LinksWritten == {q \in DOMAIN links' : q \notin DOMAIN links \/ links'[q] # links[q]}

\* C32: whenever the lock is free, both endpoints of every row of links have a row
\* in nodes; a step that writes links is the end of one lock hold of logParser,
\* writes the row of one hop only, and leaves both endpoints of that row in nodes
\* with the time of the hop as last-seen; no row of links or nodes is ever removed.
C32_LinkEndpointsHaveNodes ==
    /\ [](lock = "free" =>
            \A key \in DOMAIN links : key[1] \in DOMAIN nodes /\ key[2] \in DOMAIN nodes)
    /\ [][links' # links =>
            /\ lock = "lp" /\ lock' = "free"
            /\ Cardinality(LinksWritten) = 1
            /\ \A q \in LinksWritten :
                  /\ q[1] \in DOMAIN nodes' /\ nodes'[q[1]].seen = now
                  /\ q[2] \in DOMAIN nodes' /\ nodes'[q[2]].seen = now]_vars
    /\ [][DOMAIN links \subseteq DOMAIN links' /\ DOMAIN nodes \subseteq DOMAIN nodes']_vars

\* the first hop of a line of two hops is committed, the second is still to be
\* written, and the lock is free in between
C32_Witness ==
    /\ lpc = "lock"
    /\ lock = "free"
    /\ cur.trace.m
    /\ Len(cur.trace.segs) = 3
    /\ Len(todo) = 1
    /\ todo[1].k = "hop"
    /\ DOMAIN links = {<<IdOf(0, 26), IdOf(0, 43)>>}
    /\ DOMAIN nodes = {IdOf(0, 26), IdOf(0, 43)}

\* both threads have ended
BothEnded == lpc \in {"done", "crashed"} /\ spc \in {"done", "crashed"}

\* C33 as stated: the line source is closed only when both loops have terminated.
C33_ClosedOnlyAfterBothLoops ==
    closed => BothEnded

\* C33, amended: main calls reader.close() and exits only after both threads have
\* ended; before that the source is closed only by the serial read that failed and
\* delivered the sentinel, after which logParser polls no more; no poll and no
\* step of the scheduler happens once main has gone past the joins.
C33_MainClosesAfterJoins ==
    /\ [](mpc \in {"close", "exit", "exited"} => BothEnded)
    /\ [](mpc = "exited" => closed)
    /\ []((closed /\ mpc \notin {"exit", "exited"}) =>
            /\ reader = "SerialReader"
            /\ (batch # <<>> /\ Head(batch).nil) \/ stopped.sentinel)
    /\ [][closed => ~(lpc = "poll" /\ lpc' # "poll")]_vars
    /\ [][(mpc \in {"close", "exit", "exited"}) => UNCHANGED <<lpc, spc, steps>>]_vars

\* main has joined both threads, closed the source and left
C33_Witness ==
    /\ mpc = "exited"
    /\ closed
    /\ lpc = "done"
    /\ spc = "done"

=============================================================================
